---- MODULE Spec2Model ----
(***************************************************************************)
(* Talk2SQL backend: the query safety pipeline.                            *)
(*                                                                         *)
(*   - text is a sequence of one-character strings, so that the regular    *)
(*     expressions and str methods of the code are computed on characters; *)
(*   - validate_sql (app/agents/sql_validator.py) is an operator, checked  *)
(*     under SpecValidator, whose Init draws the candidate text;           *)
(*   - handle_query (app/api/chat.py) is a state machine, one action per   *)
(*     await or return of the handler, checked under Spec.                 *)
(***************************************************************************)
EXTENDS Integers, Sequences, FiniteSets, TLC

VARIABLES
    sql,            \* validate_sql: its argument
    verdict,        \* validate_sql: what the call did (NoVerdict before it)
    pc,             \* handle_query: the handler's position
    query,          \* handle_query: request.query.strip()
    intent,         \* handle_query: the IntentResult of check_intent
    schema_snippets,\* handle_query: number of snippets retrieved (-1 before)
    generated_sql,  \* handle_query: what generate_sql returned
    validated,      \* handle_query: what validate_sql did in this request
    response,       \* handle_query: the QueryResponse / ErrorResponse returned
    raised,         \* handle_query: the exception that left the handler
    calls,          \* handle_query: the collaborators called, in order
    escalation,     \* check_intent: how the call of _llm_classify ended
    raw_output,     \* generate_sql: raw, what its chat_completion returned
    exec_result,    \* handle_query: what execute_readonly_query returned
    max_turns,      \* settings.SESSION_MAX_TURNS
    turns,          \* Session.turns
    added,          \* the turns given to add_turn since the last reset
    last_n,         \* get_context_messages: its argument (-1 before a call)
    context,        \* get_context_messages: what it returned
    catalog,        \* the base tables of schema public
    top_k,          \* retrieve_relevant_schema: its argument (0 before a call)
    snippets,       \* retrieve_relevant_schema: what it returned
    store,          \* vector_embeddings: the schema vectors held per table
    ingest,         \* ingest_schema: the current or last run
    ingested,       \* a run of ingest_schema has returned its summary
    DEFAULT_PROFILE,\* user_profile.py: the module-level dict, as it is now
    profiles,       \* table user_profiles: the profile stored per user
    tasks           \* the calls of get_user_profile / update_memory_after_query

sessionVars == <<max_turns, turns, added, last_n, context>>
retrieveVars == <<catalog, top_k, snippets>>
ingestVars == <<store, ingest, ingested>>
profileVars == <<DEFAULT_PROFILE, profiles, tasks>>

\* the variables outside handle_query and validate_sql
otherVars == <<sessionVars, retrieveVars, ingestVars, profileVars>>

vars == <<sql, verdict, pc, query, intent, schema_snippets, generated_sql,
          validated, response, raised, calls, escalation, raw_output, exec_result,
          otherVars>>

validatorVars == <<sql, verdict>>
pipelineVars == <<pc, query, intent, schema_snippets, generated_sql,
                  validated, response, raised, calls, escalation, raw_output, exec_result>>

(***************************************************************************)
(* Bounds of the model.                                                    *)
(***************************************************************************)
\* tokens in a candidate handed to validate_sql under SpecValidator
MaxTokens == 3
\* tokens in a raw generator reply under Spec
MaxRawTokens == 4

(***************************************************************************)
(* Characters and the str / re primitives the code uses.                   *)
(***************************************************************************)
UpperCase == <<"A","B","C","D","E","F","G","H","I","J","K","L","M",
               "N","O","P","Q","R","S","T","U","V","W","X","Y","Z">>
LowerCase == <<"a","b","c","d","e","f","g","h","i","j","k","l","m",
               "n","o","p","q","r","s","t","u","v","w","x","y","z">>
Digits == {"0","1","2","3","4","5","6","7","8","9"}

\* the lower-case letter of every upper-case letter
LowerOf == [c \in {UpperCase[i] : i \in 1..26} |->
                LowerCase[CHOOSE i \in 1..26 : UpperCase[i] = c]]

\* the characters of the class \w: letters, digits and the underscore
WordChars ==
    {UpperCase[i] : i \in 1..26} \cup {LowerCase[i] : i \in 1..26}
        \cup Digits \cup {"_"}

\* str.isspace / the class \s
IsSpace(c) == c \in {" ", "\t", "\n", "\r"}

\* the class \w
IsWordChar(c) == c \in WordChars

\* str.lower on one character; re.IGNORECASE compares characters through it
ToLower(c) == IF c \in DOMAIN LowerOf THEN LowerOf[c] ELSE c

\* str.strip(): drop leading and trailing whitespace
Strip(s) ==
    IF \A i \in 1..Len(s) : IsSpace(s[i]) THEN <<>>
    ELSE LET first == CHOOSE i \in 1..Len(s) :
                          /\ ~IsSpace(s[i])
                          /\ \A j \in 1..(i-1) : IsSpace(s[j])
             last == CHOOSE i \in 1..Len(s) :
                          /\ ~IsSpace(s[i])
                          /\ \A j \in (i+1)..Len(s) : IsSpace(s[j])
         IN  SubSeq(s, first, last)

\* mutant of RStripSemicolons: one trailing semicolon is dropped, not all
RStripOneSemicolon(s) ==
    IF Len(s) >= 1 /\ s[Len(s)] = ";" THEN SubSeq(s, 1, Len(s) - 1) ELSE s

\* str.rstrip(";"): drop every trailing semicolon
RStripSemicolons(s) ==
    IF \A i \in 1..Len(s) : s[i] = ";" THEN <<>>
    ELSE LET last == CHOOSE i \in 1..Len(s) :
                          /\ s[i] # ";"
                          /\ \A j \in (i+1)..Len(s) : s[j] = ";"
         IN  SubSeq(s, 1, last)

\* "x in s" for a one-character x
Contains(s, c) == \E i \in 1..Len(s) : s[i] = c

\* the literal text lit (given in lower case) matches s at position i,
\* case-insensitively
MatchAt(s, i, lit) ==
    /\ i >= 1
    /\ i + Len(lit) - 1 <= Len(s)
    /\ \A k \in 1..Len(lit) : ToLower(s[i + k - 1]) = lit[k]

\* the assertion \b between s[i-1] and s[i]: exactly one side is a word
\* character (outside the text counts as a non-word character)
WordBoundary(s, i) ==
    LET before == i - 1 >= 1 /\ i - 1 <= Len(s) /\ IsWordChar(s[i - 1])
        after == i >= 1 /\ i <= Len(s) /\ IsWordChar(s[i])
    IN  before # after

(***************************************************************************)
(* sql_validator.py                                                        *)
(***************************************************************************)
\* mutant of BLOCKED_PATTERNS: the blocklist as the module docstring gives it,
\* the nine verbs alone
BLOCKED_PATTERNS_VerbsOnly == <<
    [shape |-> "word", text |-> <<"d","r","o","p">>,
     message |-> "DROP statements are not allowed"],
    [shape |-> "word", text |-> <<"a","l","t","e","r">>,
     message |-> "ALTER statements are not allowed"],
    [shape |-> "word", text |-> <<"t","r","u","n","c","a","t","e">>,
     message |-> "TRUNCATE statements are not allowed"],
    [shape |-> "word", text |-> <<"d","e","l","e","t","e">>,
     message |-> "DELETE statements are not allowed"],
    [shape |-> "word", text |-> <<"i","n","s","e","r","t">>,
     message |-> "INSERT statements are not allowed"],
    [shape |-> "word", text |-> <<"u","p","d","a","t","e">>,
     message |-> "UPDATE statements are not allowed"],
    [shape |-> "word", text |-> <<"c","r","e","a","t","e">>,
     message |-> "CREATE statements are not allowed"],
    [shape |-> "word", text |-> <<"g","r","a","n","t">>,
     message |-> "GRANT statements are not allowed"],
    [shape |-> "word", text |-> <<"r","e","v","o","k","e">>,
     message |-> "REVOKE statements are not allowed"]
>>

\* _BLOCKED_PATTERNS, in the order of the list.  shape "word" is \bX\b,
\* "prefix" is \bX and "literal" is X; all are compiled with re.IGNORECASE.
BLOCKED_PATTERNS == <<
    [shape |-> "word", text |-> <<"d","r","o","p">>,
     message |-> "DROP statements are not allowed"],
    [shape |-> "word", text |-> <<"a","l","t","e","r">>,
     message |-> "ALTER statements are not allowed"],
    [shape |-> "word", text |-> <<"t","r","u","n","c","a","t","e">>,
     message |-> "TRUNCATE statements are not allowed"],
    [shape |-> "word", text |-> <<"d","e","l","e","t","e">>,
     message |-> "DELETE statements are not allowed"],
    [shape |-> "word", text |-> <<"i","n","s","e","r","t">>,
     message |-> "INSERT statements are not allowed"],
    [shape |-> "word", text |-> <<"u","p","d","a","t","e">>,
     message |-> "UPDATE statements are not allowed"],
    [shape |-> "word", text |-> <<"c","r","e","a","t","e">>,
     message |-> "CREATE statements are not allowed"],
    [shape |-> "word", text |-> <<"g","r","a","n","t">>,
     message |-> "GRANT statements are not allowed"],
    [shape |-> "word", text |-> <<"r","e","v","o","k","e">>,
     message |-> "REVOKE statements are not allowed"],
    [shape |-> "word", text |-> <<"e","x","e","c","u","t","e">>,
     message |-> "EXECUTE statements are not allowed"],
    [shape |-> "word", text |-> <<"c","a","l","l">>,
     message |-> "CALL statements are not allowed"],
    [shape |-> "literal", text |-> <<"-","-">>,
     message |-> "SQL comments (--) are not allowed"],
    [shape |-> "literal", text |-> <<"/","*">>,
     message |-> "Block comments (/*) are not allowed"],
    [shape |-> "prefix", text |-> <<"p","g","_">>,
     message |-> "Access to pg_ system catalogs is not allowed"],
    [shape |-> "word",
     text |-> <<"i","n","f","o","r","m","a","t","i","o","n","_",
                "s","c","h","e","m","a">>,
     message |-> "Access to information_schema is not allowed"]
>>

\* mutant of PatternSearch: the pattern compiled without re.IGNORECASE
PatternSearchCaseSensitive(p, s) ==
    \E i \in 1..Len(s) :
        /\ i + Len(p.text) - 1 <= Len(s)
        /\ \A k \in 1..Len(p.text) : s[i + k - 1] = p.text[k]
        /\ p.shape \in {"word", "prefix"} => WordBoundary(s, i)
        /\ p.shape = "word" => WordBoundary(s, i + Len(p.text))

\* mutant of PatternSearch: pattern.match(s), which looks at the start only
PatternSearchAnchored(p, s) ==
    /\ MatchAt(s, 1, p.text)
    /\ p.shape \in {"word", "prefix"} => WordBoundary(s, 1)
    /\ p.shape = "word" => WordBoundary(s, 1 + Len(p.text))

\* pattern.search(s) for one entry of _BLOCKED_PATTERNS
PatternSearch(p, s) ==
    \E i \in 1..Len(s) :
        /\ MatchAt(s, i, p.text)
        /\ p.shape \in {"word", "prefix"} => WordBoundary(s, i)
        /\ p.shape = "word" => WordBoundary(s, i + Len(p.text))

\* mutant of AllowedStartMatch: the pattern without its closing \b
AllowedStartMatchNoBoundary(s) ==
    \E i \in 1..(Len(s) + 1) :
        /\ \A j \in 1..(i - 1) : IsSpace(s[j])
        /\ \/ MatchAt(s, i, <<"s","e","l","e","c","t">>)
           \/ MatchAt(s, i, <<"w","i","t","h">>)

\* _ALLOWED_START.match(s): ^\s*(SELECT|WITH)\b, re.IGNORECASE
AllowedStartMatch(s) ==
    \E i \in 1..(Len(s) + 1) :
        /\ \A j \in 1..(i - 1) : IsSpace(s[j])
        /\ \/ MatchAt(s, i, <<"s","e","l","e","c","t">>) /\ WordBoundary(s, i + 6)
           \/ MatchAt(s, i, <<"w","i","t","h">>) /\ WordBoundary(s, i + 4)

\* mutant of ParenScanRaises: the depth is tested after the loop only
RECURSIVE ParenScanFinalDepthOnly(_, _, _)
ParenScanFinalDepthOnly(s, i, depth) ==
    IF i > Len(s) THEN depth # 0
    ELSE ParenScanFinalDepthOnly(s, i + 1,
             IF s[i] = "(" THEN depth + 1
             ELSE IF s[i] = ")" THEN depth - 1
             ELSE depth)

\* the loop "for ch in stripped" of the parentheses check, from character i
\* with the depth so far: TRUE when the code raises "Unbalanced parentheses"
RECURSIVE ParenScanRaises(_, _, _)
ParenScanRaises(s, i, depth) ==
    IF i > Len(s) THEN depth # 0
    ELSE LET d == IF s[i] = "(" THEN depth + 1
                  ELSE IF s[i] = ")" THEN depth - 1
                  ELSE depth
         IN  IF d < 0 THEN TRUE ELSE ParenScanRaises(s, i + 1, d)

SQLValidationError(message, s) == [raised |-> TRUE, message |-> message, sql |-> s]
ValidationPassed(s) == [raised |-> FALSE, message |-> "", sql |-> s]

\* mutant of BlockedScan: the list with the catalog patterns moved before the
\* comment patterns
RECURSIVE BlockedScanCatalogFirst(_, _)
BlockedScanCatalogFirst(s, i) ==
    LET order == <<1, 2, 3, 4, 5, 6, 7, 8, 9, 10, 11, 14, 15, 12, 13>>
    IN  IF i > Len(order) THEN ""
        ELSE IF PatternSearch(BLOCKED_PATTERNS[order[i]], s)
        THEN BLOCKED_PATTERNS[order[i]].message
        ELSE BlockedScanCatalogFirst(s, i + 1)

\* the loop "for pattern, message in _BLOCKED_PATTERNS" from entry i: the
\* message of the first pattern found in s, "" when the loop ends
RECURSIVE BlockedScan(_, _)
BlockedScan(s, i) ==
    IF i > Len(BLOCKED_PATTERNS) THEN ""
    ELSE IF PatternSearch(BLOCKED_PATTERNS[i], s) THEN BLOCKED_PATTERNS[i].message
    ELSE BlockedScan(s, i + 1)

\* mutant of validate_sql: the structural checks (parentheses, statements)
\* run before the blocked patterns
validate_sql_StructureFirst(s) ==
    LET stripped == Strip(s)
        without_trailing == Strip(RStripSemicolons(stripped))
    IN  IF s = <<>> \/ stripped = <<>>
        THEN SQLValidationError("Empty SQL statement.", s)
        ELSE IF ~AllowedStartMatch(stripped)
        THEN SQLValidationError("Only SELECT queries are allowed. Your query must start with SELECT or WITH.", s)
        ELSE IF ParenScanRaises(stripped, 1, 0)
        THEN SQLValidationError("Unbalanced parentheses in SQL.", s)
        ELSE IF Contains(without_trailing, ";")
        THEN SQLValidationError("Multiple SQL statements are not allowed. Only single queries are permitted.", s)
        ELSE IF BlockedScan(stripped, 1) # ""
        THEN SQLValidationError(BlockedScan(stripped, 1), s)
        ELSE ValidationPassed(s)

\* validate_sql(sql): the SQLValidationError it raises, or the text it returns
validate_sql(s) ==
    LET stripped == Strip(s)
        without_trailing == Strip(RStripSemicolons(stripped))
    IN  IF s = <<>> \/ stripped = <<>>
        THEN SQLValidationError("Empty SQL statement.", s)
        ELSE IF ~AllowedStartMatch(stripped)
        THEN SQLValidationError("Only SELECT queries are allowed. Your query must start with SELECT or WITH.", s)
        ELSE IF BlockedScan(stripped, 1) # ""
        THEN SQLValidationError(BlockedScan(stripped, 1), s)
        ELSE IF ParenScanRaises(stripped, 1, 0)
        THEN SQLValidationError("Unbalanced parentheses in SQL.", s)
        ELSE IF Contains(without_trailing, ";")
        THEN SQLValidationError("Multiple SQL statements are not allowed. Only single queries are permitted.", s)
        ELSE ValidationPassed(s)

(***************************************************************************)
(* longcat_client.py, sql_agent.py                                         *)
(***************************************************************************)
\* chat_completion: the assistant message content, stripped
chat_completion(content) == Strip(content)

\* the backquote character (written BQ: a TLA+ string cannot hold it) and
\* the markdown code fence, three of them
BQ == "BQ"
FENCE == <<BQ, BQ, BQ>>

\* the first position >= i of s that holds no whitespace (Len(s) + 1 if none)
SkipSpaces(s, i) ==
    CHOOSE j \in i..(Len(s) + 1) :
        /\ \A k \in i..(j - 1) : IsSpace(s[k])
        /\ j <= Len(s) => ~IsSpace(s[j])

\* re.sub(r"^FENCE(?:sql)?\s*", "", raw, flags=re.IGNORECASE), FENCE being
\* the three backquotes
StripOpeningFence(raw) ==
    IF MatchAt(raw, 1, FENCE)
    THEN LET afterTag == IF MatchAt(raw, 4, <<"s","q","l">>) THEN 7 ELSE 4
         IN  SubSeq(raw, SkipSpaces(raw, afterTag), Len(raw))
    ELSE raw

\* re.sub(r"\s*FENCE$", "", s): "$" is the end of the text, or the place before
\* a newline that ends it
StripClosingFence(s) ==
    LET n == Len(s)
        end == IF MatchAt(s, n - 2, FENCE) THEN n
               ELSE IF n >= 1 /\ s[n] = "\n" /\ MatchAt(s, n - 3, FENCE)
               THEN n - 1
               ELSE 0
        start == CHOOSE j \in 1..(end - 2) :
                     /\ \A k \in j..(end - 3) : IsSpace(s[k])
                     /\ j > 1 => ~IsSpace(s[j - 1])
    IN  IF end = 0 THEN s
        ELSE SubSeq(s, 1, start - 1) \o SubSeq(s, end + 1, n)

\* _clean_sql(raw)
clean_sql(raw) ==
    LET unfenced == StripClosingFence(StripOpeningFence(raw))
        cleaned == Strip(unfenced)
    IN  Strip(RStripSemicolons(cleaned))

\* mutant of generate_sql: the test for an empty result is left out
generate_sql_Unchecked(content) ==
    [raised |-> FALSE, type |-> "None", sql |-> clean_sql(chat_completion(content))]

\* generate_sql, once chat_completion has returned content: the text it
\* returns, or the ValueError it raises on an empty one
generate_sql(content) ==
    LET cleaned == clean_sql(chat_completion(content))
    IN  IF cleaned = <<>>
        THEN [raised |-> TRUE, type |-> "ValueError", sql |-> <<>>]
        ELSE [raised |-> FALSE, type |-> "None", sql |-> cleaned]

(***************************************************************************)
(* intent_guard.py                                                         *)
(***************************************************************************)
REJECTION_MESSAGE ==
    "Please enter a query related to the system's database (employees, inventory, production, or sales)."

\* _DOMAIN_KEYWORDS; the atom ".?" is the regular expression .?
DOMAIN_KEYWORDS == <<
    <<"e","m","p","l","o","y","e","e">>,
    <<"s","t","a","f","f">>,
    <<"w","o","r","k","e","r">>,
    <<"s","a","l","a","r","y">>,
    <<"s","a","l","a","r","i","e","s">>,
    <<"h","i","r","e">>,
    <<"d","e","s","i","g","n","a","t","i","o","n">>,
    <<"m","a","n","a","g","e","r">>,
    <<"d","e","p","a","r","t","m","e","n","t">>,
    <<"d","e","p","t">>,
    <<"a","t","t","e","n","d","a","n","c","e">>,
    <<"p","r","e","s","e","n","t">>,
    <<"a","b","s","e","n","t">>,
    <<"l","a","t","e">>,
    <<"c","h","e","c","k",".?","i","n">>,
    <<"c","h","e","c","k",".?","o","u","t">>,
    <<"l","e","a","v","e">>,
    <<"s","i","c","k">>,
    <<"c","a","s","u","a","l">>,
    <<"a","n","n","u","a","l">>,
    <<"m","a","t","e","r","n","i","t","y">>,
    <<"h","a","l","f",".?","d","a","y">>,
    <<"h","o","u","r","s",".?","w","o","r","k","e","d">>,
    <<"i","n","v","e","n","t","o","r","y">>,
    <<"s","t","o","c","k">>,
    <<"m","a","t","e","r","i","a","l">>,
    <<"r","a","w",".?","m","a","t","e","r","i","a","l">>,
    <<"f","a","b","r","i","c">>,
    <<"s","u","p","p","l","i","e","r">>,
    <<"r","e","o","r","d","e","r">>,
    <<"q","u","a","n","t","i","t","y">>,
    <<"c","o","s","t",".?","p","e","r",".?","u","n","i","t">>,
    <<"p","r","o","d","u","c","t">>,
    <<"p","r","o","d","u","c","t","i","o","n">>,
    <<"m","a","n","u","f","a","c","t","u","r","i","n","g">>,
    <<"o","r","d","e","r">>,
    <<"t","a","r","g","e","t",".?","q","u","a","n","t","i","t","y">>,
    <<"c","o","m","p","l","e","t","e","d">>,
    <<"s","t","i","t","c","h","i","n","g">>,
    <<"c","u","t","t","i","n","g">>,
    <<"p","r","o","d","u","c","t",".?","c","o","d","e">>,
    <<"c","a","t","e","g","o","r","y">>,
    <<"s","a","l","e">>,
    <<"s","a","l","e","s">>,
    <<"r","e","v","e","n","u","e">>,
    <<"c","u","s","t","o","m","e","r">>,
    <<"t","o","t","a","l",".?","a","m","o","u","n","t">>,
    <<"s","e","l","l","i","n","g",".?","p","r","i","c","e">>,
    <<"c","o","u","n","t">>,
    <<"a","v","e","r","a","g","e">>,
    <<"s","u","m">>,
    <<"t","o","t","a","l">>,
    <<"m","a","x","i","m","u","m">>,
    <<"m","i","n","i","m","u","m">>,
    <<"h","i","g","h","e","s","t">>,
    <<"l","o","w","e","s","t">>,
    <<"t","o","p">>,
    <<"b","o","t","t","o","m">>,
    <<"l","i","s","t">>,
    <<"s","h","o","w">>,
    <<"d","i","s","p","l","a","y">>,
    <<"r","e","p","o","r","t">>,
    <<"h","o","w"," ","m","a","n","y">>,
    <<"w","h","i","c","h">>
>>

\* keyword kw from atom k on matches s from position i (re.IGNORECASE; "."
\* is any character but a newline)
RECURSIVE KeywordMatchAt(_, _, _, _)
KeywordMatchAt(s, i, kw, k) ==
    IF k > Len(kw) THEN TRUE
    ELSE IF kw[k] = ".?"
    THEN \/ i <= Len(s) /\ s[i] # "\n" /\ KeywordMatchAt(s, i + 1, kw, k + 1)
         \/ KeywordMatchAt(s, i, kw, k + 1)
    ELSE /\ i <= Len(s)
         /\ ToLower(s[i]) = kw[k]
         /\ KeywordMatchAt(s, i + 1, kw, k + 1)

\* mutant of DomainPatternSearch: the pattern is compiled without
\* re.IGNORECASE
DomainPatternSearchCaseSensitive(q) ==
    \E n \in 1..Len(DOMAIN_KEYWORDS) : \E i \in 1..Len(q) :
        \E j \in i..Len(q) :
            /\ KeywordMatchAt(SubSeq(q, i, j), 1, DOMAIN_KEYWORDS[n], 1)
            /\ \A k \in i..j : ToLower(q[k]) = q[k]

\* _DOMAIN_PATTERN.search(q)
DomainPatternSearch(q) ==
    \E n \in 1..Len(DOMAIN_KEYWORDS) : \E i \in 1..Len(q) :
        KeywordMatchAt(q, i, DOMAIN_KEYWORDS[n], 1)

IntentResult(is_in_domain, rejection_message) ==
    [is_in_domain |-> is_in_domain, rejection_message |-> rejection_message]

\* mutant of llm_classify: every reply but a "no" counts as a yes
llm_classify_UnlessNo(content) ==
    ~MatchAt(Strip(chat_completion(content)), 1, <<"n","o">>)

\* _llm_classify, once chat_completion has returned content:
\* response.strip().lower().startswith("yes")
llm_classify(content) ==
    MatchAt(Strip(chat_completion(content)), 1, <<"y","e","s">>)

(***************************************************************************)
(* Candidate texts: every concatenation of at most n tokens.               *)
(***************************************************************************)
RECURSIVE TextsOf(_, _)
TextsOf(tokens, n) ==
    IF n = 0 THEN {<<>>}
    ELSE LET shorter == TextsOf(tokens, n - 1)
         IN  shorter \cup {p \o t : p \in shorter, t \in tokens}

\* what a candidate handed to validate_sql is made of: the two leading
\* keywords, verbs of the denylist, the catalog tokens, the comment openers,
\* parentheses, the terminator, a blank and a letter
SqlTokens == {
    <<"S","E","L","E","C","T">>,
    <<"w","i","t","h">>,
    <<"D","R","O","P">>,
    <<"c","a","l","l">>,
    <<"p","g","_">>,
    <<"i","n","f","o","r","m","a","t","i","o","n","_","s","c","h","e","m","a">>,
    <<"-","-">>,
    <<"/","*">>,
    <<"(">>,
    <<")">>,
    <<";">>,
    <<" ">>,
    <<"x">>
}

\* how a candidate may open: with nothing, or with a leading keyword
SqlHeads == {
    <<>>,
    <<"S","E","L","E","C","T">>
}

\* a candidate: an opening, then at most MaxTokens tokens
Candidates == {h \o b : h \in SqlHeads, b \in TextsOf(SqlTokens, MaxTokens)}

NoVerdict == [raised |-> FALSE, message |-> "not called", sql |-> <<>>]

(***************************************************************************)
(* chat.py: the values of handle_query.                                    *)
(***************************************************************************)
\* str(e)[:200]: how much of a collaborator's error text the handler keeps
ERROR_TEXT_LIMIT == 200

NoIntent == IntentResult(FALSE, "unset")

\* _llm_classify was not called, its chat_completion returned a reply, or it
\* raised an exception of a type
NoEscalation == [ended |-> "not called", reply |-> <<>>, type |-> "None"]
EscalationReturned(reply) == [ended |-> "returned", reply |-> reply, type |-> "None"]
EscalationRaised(e) == [ended |-> "raised", reply |-> <<>>, type |-> e.type]

\* raw_output before the chat completion of generate_sql has returned
NoRaw == <<"unset">>

\* exec_result before the executor has returned
NoExecResult == [rows |-> 0, columns |-> 0, row_count |-> -1]

\* an error text of the outcome: a fixed prefix, then (where the handler
\* formats them in) the exception's type name, the validator's message and
\* the part of the collaborator's error text that the handler keeps
ErrorText(prefix, type, detail, text) ==
    [prefix |-> prefix, type |-> type, detail |-> detail, text |-> text]

NoResponse ==
    [status |-> "none", sql |-> <<>>, data |-> 0, columns |-> 0, row_count |-> 0,
     explanation |-> "", error |-> ErrorText("None", "", "", <<>>)]

\* ErrorResponse(id=..., sql=sql, error=error, explanation=explanation) with
\* the defaults of the class for the other fields
ErrorResponse(s, error, explanation) ==
    [status |-> "error", sql |-> s, data |-> 0, columns |-> 0, row_count |-> 0,
     explanation |-> explanation, error |-> error]

\* the text of Step 6 for a row count
Explanation(row_count) ==
    IF row_count = 0 THEN "No data found matching your query."
    ELSE IF row_count = 1 THEN "Found 1 matching result."
    ELSE "Found {row_count} matching results."

\* mutant of QueryResponse: row_count is taken from the columns
QueryResponseCountsColumns(s, result) ==
    [status |-> "success", sql |-> s, data |-> result.rows,
     columns |-> result.columns, row_count |-> result.columns,
     explanation |-> Explanation(result.row_count),
     error |-> ErrorText("None", "", "", <<>>)]

\* QueryResponse(...) built from exec_result (here result); error keeps its
\* default None
QueryResponse(s, result) ==
    [status |-> "success", sql |-> s, data |-> result.rows,
     columns |-> result.columns, row_count |-> result.row_count,
     explanation |-> Explanation(result.row_count),
     error |-> ErrorText("None", "", "", <<>>)]

\* mutant of Truncate: the slice is left out
TruncateNothing(text) == text

\* str(e)[:200]: the slice of the first 200 characters
Truncate(text) ==
    SubSeq(text, 1, IF Len(text) <= ERROR_TEXT_LIMIT THEN Len(text) ELSE ERROR_TEXT_LIMIT)

Call(fn, arg) == [fn |-> fn, arg |-> arg]

(***************************************************************************)
(* SpecValidator: validate_sql applied to a drawn candidate.               *)
(***************************************************************************)
PipelineIdle ==
    /\ pc = "idle"
    /\ query = <<>>
    /\ intent = NoIntent
    /\ schema_snippets = -1
    /\ generated_sql = <<>>
    /\ validated = NoVerdict
    /\ response = NoResponse
    /\ raised = "None"
    /\ calls = <<>>
    /\ escalation = NoEscalation
    /\ exec_result = NoExecResult
    /\ raw_output = NoRaw

\* the session of a process that has just started: the default
\* SESSION_MAX_TURNS and no turn
SESSION_MAX_TURNS == 20

SessionIdle ==
    /\ max_turns = SESSION_MAX_TURNS
    /\ turns = <<>>
    /\ added = <<>>
    /\ last_n = -1
    /\ context = <<>>

\* retrieve_relevant_schema has not been called; the catalog is empty
NotRetrieved == [ended |-> "not called", list |-> <<>>]

RetrieveIdle ==
    /\ catalog = {}
    /\ top_k = 0
    /\ snippets = NotRetrieved

\* the tables of SCHEMA_DEFINITIONS, named by their place in the list
MaxSchemaTables == 2
SchemaTables == 1..MaxSchemaTables

\* ingest_schema has never been called
NoRun ==
    [state |-> "none", force |-> FALSE, table |-> 0, processed |-> 0,
     skipped |-> 0, number |-> 0, follows_completed |-> FALSE]

\* ingest_schema has never run: the store holds no schema vector
IngestIdle ==
    /\ store = [t \in SchemaTables |-> 0]
    /\ ingest = NoRun
    /\ ingested = FALSE

\* the users, and the calls made, each a task of the event loop
MaxUsers == 2
MaxCalls == 2
Users == 1..MaxUsers
Tasks == 1..MaxCalls

\* the keys of domain_focus
Domains == {"HR", "Inventory", "Production", "Sales"}

\* DEFAULT_PROFILE as the module is loaded (lines 36-48); a dict of filters
\* is a set of <<key, value>> pairs; query_style and output_preference, which
\* are strings assigned in the copy only, are left out
DefaultProfileAsLoaded ==
    [frequent_filters |-> {},
     error_patterns |-> <<>>,
     domain_focus |-> [d \in Domains |-> 0],
     total_queries |-> 0]

\* no row of user_profiles for the user
NoProfile == [stored |-> FALSE]

\* a call that has not been made
NoCall ==
    [kind |-> "none", domains |-> <<>>, success |-> FALSE,
     new_filters |-> {}, error_message |-> ""]

NoTask ==
    [pc |-> "idle", user |-> 0, call |-> NoCall, row |-> NoProfile,
     profile |-> DefaultProfileAsLoaded, aliased |-> {},
     created |-> NoProfile]

\* no call has been made: the module is as loaded and the table is empty
ProfileIdle ==
    /\ DEFAULT_PROFILE = DefaultProfileAsLoaded
    /\ profiles = [u \in Users |-> NoProfile]
    /\ tasks = [i \in Tasks |-> NoTask]

\* nothing outside handle_query and validate_sql has run
OthersIdle == SessionIdle /\ RetrieveIdle /\ IngestIdle /\ ProfileIdle

InitValidator ==
    /\ sql \in Candidates
    /\ verdict = NoVerdict
    /\ PipelineIdle
    /\ OthersIdle

\* a call validate_sql(sql)
Validate ==
    /\ verdict = NoVerdict
    /\ verdict' = validate_sql(sql)
    /\ UNCHANGED sql
    /\ UNCHANGED <<pipelineVars, otherVars>>

NextValidator == Validate

SpecValidator == InitValidator /\ [][NextValidator]_vars

(***************************************************************************)
(* Spec: handle_query, one request at a time.                              *)
(***************************************************************************)
\* rows an execution returns, tables the catalog holds
MaxRows == 2
MaxTables == 2

\* request.query: accepted by QueryRequest (1 to 2000 characters)
Questions == {
    <<"S","h","o","w"," ","m","e"," ","a","l","l"," ","e","m","p","l","o","y","e","e","s">>,
    <<"W","h","a","t","'","s"," ","t","h","e"," ","w","e","a","t","h","e","r"," ","t","o","d","a","y","?">>,
    <<" ","h","e","l","l","o"," ">>,
    <<" ">>
}

\* what the classifier's chat completion may hold
ClassifierReplies == {
    <<"y","e","s">>,
    <<" ","Y","e","s",".">>,
    <<"n","o">>,
    <<>>
}

\* what the generator's chat completion is made of
RawTokens == {
    <<"S","E","L","E","C","T"," ","1">>,
    <<"D","R","O","P"," ","T","A","B","L","E"," ","t">>,
    <<";">>,
    <<" ">>,
    FENCE
}

RawReplies == TextsOf(RawTokens, MaxRawTokens)

\* exception types the LLM client raises out of generate_sql
GeneratorErrors == {"ValueError", "APIConnectionError"}

\* str(e) of n characters; its i-th character is written i
RawErrorText(n) == [i \in 1..n |-> i]

\* exceptions of the escalation call, the catalog and the database: a type
\* and str(e), empty, of 200 characters and longer
CollaboratorErrors ==
    [type : {"OperationalError"},
     text : {RawErrorText(n) : n \in {0, ERROR_TEXT_LIMIT, ERROR_TEXT_LIMIT + 1}}]

\* execute_readonly_query's return value: row_count is len(rows)
ExecResults ==
    {[rows |-> n, columns |-> c, row_count |-> n] : n \in 0..MaxRows, c \in {1, 2}}

Init ==
    /\ sql = <<>>
    /\ verdict = NoVerdict
    /\ PipelineIdle
    /\ OthersIdle

\* return ErrorResponse(...): the request ends with an error outcome
ReturnError(s, error, explanation) ==
    /\ response' = ErrorResponse(s, error, explanation)
    /\ pc' = "done"

\* Step 1 accepted the question: Step 2 awaits retrieve_relevant_schema
EnterRetrieval(called, q) ==
    /\ intent' = IntentResult(TRUE, "None")
    /\ calls' = called \o <<Call("retrieve_relevant_schema", q)>>
    /\ pc' = "retrieve"
    /\ UNCHANGED response

\* Step 1 rejected the question
RejectIntent(called) ==
    /\ intent' = IntentResult(FALSE, REJECTION_MESSAGE)
    /\ calls' = called
    /\ ReturnError(<<>>,
                   ErrorText(IF intent'.rejection_message # "None"
                             THEN intent'.rejection_message
                             ELSE "Query is not related to the system's database.",
                             "", "", <<>>),
                   "Please rephrase your query to ask about employees, inventory, production, or sales.")

\* handle_query up to its first await: the query is stripped and check_intent
\* runs its keyword scan; without a match it awaits _llm_classify
Request(q) ==
    /\ pc = "idle"
    /\ query' = Strip(q)
    /\ IF DomainPatternSearch(query')
       THEN EnterRetrieval(<<Call("check_intent", query')>>, query')
       ELSE /\ calls' = <<Call("check_intent", query'), Call("_llm_classify", query')>>
            /\ pc' = "classify"
            /\ UNCHANGED <<intent, response>>
    /\ UNCHANGED <<schema_snippets, generated_sql, validated, raised, raw_output,
                   escalation, exec_result>>
    /\ UNCHANGED <<validatorVars, otherVars>>

\* _llm_classify's chat completion returns
ClassifyReturns(content) ==
    /\ pc = "classify"
    /\ IF llm_classify(content)
       THEN EnterRetrieval(calls, query)
       ELSE RejectIntent(calls)
    /\ escalation' = EscalationReturned(chat_completion(content))
    /\ UNCHANGED <<query, schema_snippets, generated_sql, validated, raised, raw_output, exec_result>>
    /\ UNCHANGED <<validatorVars, otherVars>>

\* mutant of ClassifyRaises: the handler of the exception puts the error
\* into the rejection
ClassifyRaisesTellsError(e) ==
    /\ pc = "classify"
    /\ intent' = IntentResult(FALSE, REJECTION_MESSAGE)
    /\ ReturnError(<<>>,
                   ErrorText(REJECTION_MESSAGE, e.type, "", Truncate(e.text)),
                   "Please rephrase your query to ask about employees, inventory, production, or sales.")
    /\ escalation' = EscalationRaised(e)
    /\ UNCHANGED <<query, schema_snippets, generated_sql, validated, raised, raw_output, calls, exec_result>>
    /\ UNCHANGED <<validatorVars, otherVars>>

\* _llm_classify's chat completion raises: check_intent catches Exception
ClassifyRaises(e) ==
    /\ pc = "classify"
    /\ RejectIntent(calls)
    /\ escalation' = EscalationRaised(e)
    /\ UNCHANGED <<query, schema_snippets, generated_sql, validated, raised, raw_output, exec_result>>
    /\ UNCHANGED <<validatorVars, otherVars>>

\* mutant of RetrieveReturns: the handler does not test the snippets and
\* goes on to the generator with none
RetrieveReturnsUntested(n) ==
    /\ pc = "retrieve"
    /\ schema_snippets' = n
    /\ calls' = calls \o <<Call("generate_sql", query)>>
    /\ pc' = "generate"
    /\ UNCHANGED response
    /\ UNCHANGED <<query, intent, generated_sql, validated, raised, raw_output, escalation, exec_result>>
    /\ UNCHANGED <<validatorVars, otherVars>>

\* retrieve_relevant_schema returns n snippets
RetrieveReturns(n) ==
    /\ pc = "retrieve"
    /\ schema_snippets' = n
    /\ IF n = 0
       THEN /\ ReturnError(<<>>,
                           ErrorText("Could not find relevant database tables for your query. Please rephrase.",
                                     "", "", <<>>),
                           "Try asking about specific topics like employees, attendance, inventory, production, or sales.")
            /\ UNCHANGED calls
       ELSE /\ calls' = calls \o <<Call("generate_sql", query)>>
            /\ pc' = "generate"
            /\ UNCHANGED response
    /\ UNCHANGED <<query, intent, generated_sql, validated, raised, raw_output, escalation, exec_result>>
    /\ UNCHANGED <<validatorVars, otherVars>>

\* retrieve_relevant_schema raises: caught by "except Exception"
RetrieveRaises(e) ==
    /\ pc = "retrieve"
    /\ ReturnError(<<>>,
                   ErrorText("Schema retrieval error: ", e.type, "", Truncate(e.text)),
                   "")
    /\ UNCHANGED <<query, intent, schema_snippets, generated_sql, validated, raised, raw_output, calls,
                   escalation, exec_result>>
    /\ UNCHANGED <<validatorVars, otherVars>>

\* mutant of AfterGenerate: the "except SQLValidationError" branch logs the
\* failure and does not return, so the handler goes on to the executor
AfterGenerateFallsThrough(gen) ==
    IF gen.raised
    THEN /\ IF gen.type = "ValueError"
            THEN /\ ReturnError(<<>>,
                                ErrorText("SQL generation failed. Please rephrase your question.",
                                          "", "", <<>>),
                                "Try to be more specific about what data you want to see.")
                 /\ UNCHANGED raised
            ELSE /\ raised' = gen.type
                 /\ pc' = "raised"
                 /\ UNCHANGED response
         /\ UNCHANGED <<generated_sql, validated, calls>>
    ELSE /\ generated_sql' = gen.sql
         /\ validated' = validate_sql(generated_sql')
         /\ calls' = calls \o <<Call("validate_sql", generated_sql'),
                                Call("execute_readonly_query", generated_sql')>>
         /\ pc' = "execute"
         /\ UNCHANGED <<response, raised>>

\* mutant of AfterGenerate: the handler hands the executor the statement
\* with a terminator added
AfterGenerateAddsTerminator(gen) ==
    IF gen.raised
    THEN /\ IF gen.type = "ValueError"
            THEN /\ ReturnError(<<>>,
                                ErrorText("SQL generation failed. Please rephrase your question.",
                                          "", "", <<>>),
                                "Try to be more specific about what data you want to see.")
                 /\ UNCHANGED raised
            ELSE /\ raised' = gen.type
                 /\ pc' = "raised"
                 /\ UNCHANGED response
         /\ UNCHANGED <<generated_sql, validated, calls>>
    ELSE /\ generated_sql' = gen.sql
         /\ validated' = validate_sql(generated_sql')
         /\ IF validated'.raised
            THEN /\ calls' = calls \o <<Call("validate_sql", generated_sql')>>
                 /\ ReturnError(generated_sql',
                                ErrorText("Generated SQL failed safety checks: ",
                                          "", validated'.message, <<>>),
                                "")
            ELSE /\ calls' = calls \o <<Call("validate_sql", generated_sql'),
                                        Call("execute_readonly_query",
                                             generated_sql' \o <<";">>)>>
                 /\ pc' = "execute"
                 /\ UNCHANGED response
         /\ UNCHANGED raised

\* Steps 3 to 5 up to the await of the executor, for what generate_sql did:
\* "except ValueError" around generate_sql, then validate_sql, then the call
\* of execute_readonly_query
AfterGenerate(gen) ==
    IF gen.raised
    THEN /\ IF gen.type = "ValueError"
            THEN /\ ReturnError(<<>>,
                                ErrorText("SQL generation failed. Please rephrase your question.",
                                          "", "", <<>>),
                                "Try to be more specific about what data you want to see.")
                 /\ UNCHANGED raised
            ELSE /\ raised' = gen.type
                 /\ pc' = "raised"
                 /\ UNCHANGED response
         /\ UNCHANGED <<generated_sql, validated, calls>>
    ELSE /\ generated_sql' = gen.sql
         /\ validated' = validate_sql(generated_sql')
         /\ IF validated'.raised
            THEN /\ calls' = calls \o <<Call("validate_sql", generated_sql')>>
                 /\ ReturnError(generated_sql',
                                ErrorText("Generated SQL failed safety checks: ",
                                          "", validated'.message, <<>>),
                                "")
            ELSE /\ calls' = calls \o <<Call("validate_sql", generated_sql'),
                                        Call("execute_readonly_query", generated_sql')>>
                 /\ pc' = "execute"
                 /\ UNCHANGED response
         /\ UNCHANGED raised

\* generate_sql's chat completion returns
GenerateReturns(content) ==
    /\ pc = "generate"
    /\ raw_output' = chat_completion(content)
    /\ AfterGenerate(generate_sql(content))
    /\ UNCHANGED <<query, intent, schema_snippets, escalation, exec_result>>
    /\ UNCHANGED <<validatorVars, otherVars>>

\* generate_sql's chat completion raises: the exception leaves generate_sql
GenerateRaises(type) ==
    /\ pc = "generate"
    /\ AfterGenerate([raised |-> TRUE, type |-> type, sql |-> <<>>])
    /\ UNCHANGED <<query, intent, schema_snippets, escalation, exec_result, raw_output>>
    /\ UNCHANGED <<validatorVars, otherVars>>

\* execute_readonly_query returns: Step 6 and the QueryResponse
ExecuteReturns(result) ==
    /\ pc = "execute"
    /\ exec_result' = result
    /\ response' = QueryResponse(generated_sql, exec_result')
    /\ pc' = "done"
    /\ UNCHANGED <<query, intent, schema_snippets, generated_sql, validated, raised, raw_output, calls,
                   escalation>>
    /\ UNCHANGED <<validatorVars, otherVars>>

\* mutant of ExecuteRaises: the handler tries the executor a second time
\* before it gives up
ExecuteRaisesRetries(e) ==
    /\ pc = "execute"
    /\ IF Cardinality({i \in DOMAIN calls : calls[i].fn = "execute_readonly_query"}) < 2
       THEN /\ calls' = calls \o <<Call("execute_readonly_query", generated_sql)>>
            /\ UNCHANGED <<pc, response>>
       ELSE /\ ReturnError(generated_sql,
                           ErrorText("Query execution failed: ", "", "", Truncate(e.text)),
                           "There was an error executing your query. Please try rephrasing.")
            /\ UNCHANGED calls
    /\ UNCHANGED <<query, intent, schema_snippets, generated_sql, validated, raised, raw_output,
                   escalation, exec_result>>
    /\ UNCHANGED <<validatorVars, otherVars>>

\* execute_readonly_query raises: caught by "except Exception"
ExecuteRaises(e) ==
    /\ pc = "execute"
    /\ ReturnError(generated_sql,
                   ErrorText("Query execution failed: ", "", "", Truncate(e.text)),
                   "There was an error executing your query. Please try rephrasing.")
    /\ UNCHANGED <<query, intent, schema_snippets, generated_sql, validated, raised, raw_output, calls,
                   escalation, exec_result>>
    /\ UNCHANGED <<validatorVars, otherVars>>

\* the request is over (an outcome was returned, or an exception left the
\* handler): the caller may issue a new one
Finish ==
    /\ pc \in {"done", "raised"}
    /\ pc' = "idle"
    /\ query' = <<>>
    /\ intent' = NoIntent
    /\ schema_snippets' = -1
    /\ generated_sql' = <<>>
    /\ validated' = NoVerdict
    /\ response' = NoResponse
    /\ raised' = "None"
    /\ calls' = <<>>
    /\ escalation' = NoEscalation
    /\ exec_result' = NoExecResult
    /\ raw_output' = NoRaw
    /\ UNCHANGED <<validatorVars, otherVars>>

Next ==
    \/ \E q \in Questions : Request(q)
    \/ \E content \in ClassifierReplies : ClassifyReturns(content)
    \/ \E e \in CollaboratorErrors : ClassifyRaises(e)
    \/ \E n \in 0..MaxTables : RetrieveReturns(n)
    \/ \E e \in CollaboratorErrors : RetrieveRaises(e)
    \/ \E content \in RawReplies : GenerateReturns(content)
    \/ \E type \in GeneratorErrors : GenerateRaises(type)
    \/ \E r \in ExecResults : ExecuteReturns(r)
    \/ \E e \in CollaboratorErrors : ExecuteRaises(e)
    \/ Finish

Spec == Init /\ [][Next]_vars

(***************************************************************************)
(* SpecIntent: the admission step of handle_query (the request model, the  *)
(* strip of the query and check_intent) on questions made of tokens.       *)
(***************************************************************************)
\* QueryRequest.query: Field(..., min_length=1, max_length=2000)
MIN_QUERY_LENGTH == 1
MAX_QUERY_LENGTH == 2000

\* the request model accepts the body: handle_query runs for it
QueryRequestAccepts(q) ==
    /\ Len(q) >= MIN_QUERY_LENGTH
    /\ Len(q) <= MAX_QUERY_LENGTH

\* tokens a question is made of
MaxQuestionTokens == 3

\* what a question is made of: parts of keywords in both cases, the two
\* sides of an optional separator, a blank and a word that is no keyword
QuestionTokens == {
    <<"s","a","l","e">>,
    <<"S","T">>,
    <<"O","P">>,
    <<"c","h","e","c","k">>,
    <<"-">>,
    <<"i","n">>,
    <<" ">>,
    <<"w","e","a","t","h","e","r">>
}

\* a text of n characters c
Repeat(c, n) == [i \in 1..n |-> c]

\* bodies at the limits of the request model: the longest accepted one, one
\* character more, and a blank before the longest
LongQuestions == {
    Repeat("x", MAX_QUERY_LENGTH),
    Repeat("x", MAX_QUERY_LENGTH + 1),
    <<" ">> \o Repeat("x", MAX_QUERY_LENGTH)
}

\* the bodies a client may post, and those handle_query runs for
PostedQuestions == TextsOf(QuestionTokens, MaxQuestionTokens) \cup LongQuestions
AcceptedQuestions == {q \in PostedQuestions : QueryRequestAccepts(q)}

NextIntent ==
    \/ \E q \in AcceptedQuestions : Request(q)
    \/ \E content \in ClassifierReplies : ClassifyReturns(content)
    \/ \E e \in CollaboratorErrors : ClassifyRaises(e)
    \/ Finish

SpecIntent == Init /\ [][NextIntent]_vars

(***************************************************************************)
(* SpecSession: session_memory.py, one Session under add_turn,             *)
(* get_context_messages and reset.                                         *)
(***************************************************************************)
\* the largest SESSION_MAX_TURNS configured, the most turns added between two
\* resets, the largest last_n asked for
MaxConfiguredTurns == 2
MaxAdded == 4
MaxLastN == 3

\* what the operations of a Session leave alone
outsideSession == <<validatorVars, pipelineVars, retrieveVars, ingestVars,
                   profileVars>>

\* s[start:] of Python for any integer start
PySliceFrom(s, start) ==
    LET from == IF start < 0
                THEN (IF Len(s) + start < 0 THEN 0 ELSE Len(s) + start)
                ELSE (IF start > Len(s) THEN Len(s) ELSE start)
    IN  SubSeq(s, from + 1, Len(s))

\* ConversationTurn(role=role, content=content, sql=sql); the timestamp is
\* left out
ConversationTurn(role, content, sql_text) ==
    [role |-> role, content |-> content, sql |-> sql_text]

\* the turns a caller adds: a question of the user (without SQL), an answer
\* of the assistant with its SQL
TurnsToAdd == {<<"user", "None">>, <<"assistant", "SELECT">>}

\* the content of the next turn: numbered by its place since the last reset
NextContent == Len(added) + 1

\* the message get_context_messages makes of a turn
ContextMessage(turn) == [role |-> turn.role, content |-> turn.content]

InitSession ==
    /\ sql = <<>>
    /\ verdict = NoVerdict
    /\ PipelineIdle
    /\ RetrieveIdle
    /\ IngestIdle
    /\ ProfileIdle
    /\ max_turns \in 1..MaxConfiguredTurns
    /\ turns = <<>>
    /\ added = <<>>
    /\ last_n = -1
    /\ context = <<>>

\* mutant of add_turn: the eviction keeps one turn too many
add_turn_KeepsOneMore(role, sql_text) ==
    /\ Len(added) < MaxAdded
    /\ LET turn == ConversationTurn(role, NextContent, sql_text)
           appended == Append(turns, turn)
       IN  /\ turns' = IF Len(appended) > max_turns + 1
                       THEN PySliceFrom(appended, -(max_turns + 1))
                       ELSE appended
           /\ added' = Append(added, turn)
    /\ UNCHANGED <<max_turns, last_n, context>>
    /\ UNCHANGED outsideSession

\* Session.add_turn(role, content, sql), content being NextContent
add_turn(role, sql_text) ==
    /\ Len(added) < MaxAdded
    /\ LET turn == ConversationTurn(role, NextContent, sql_text)
           appended == Append(turns, turn)
       IN  /\ turns' = IF Len(appended) > max_turns
                       THEN PySliceFrom(appended, -max_turns)
                       ELSE appended
           /\ added' = Append(added, turn)
    /\ UNCHANGED <<max_turns, last_n, context>>
    /\ UNCHANGED outsideSession

\* Session.get_context_messages(n)
get_context_messages(n) ==
    /\ last_n' = n
    /\ LET recent == PySliceFrom(turns, -n)
       IN  context' = [i \in 1..Len(recent) |-> ContextMessage(recent[i])]
    /\ UNCHANGED <<max_turns, turns, added>>
    /\ UNCHANGED outsideSession

\* Session.reset
reset ==
    /\ turns' = <<>>
    /\ added' = <<>>
    /\ UNCHANGED <<max_turns, last_n, context>>
    /\ UNCHANGED outsideSession

NextSession ==
    \/ \E turn \in TurnsToAdd : add_turn(turn[1], turn[2])
    \/ \E n \in 0..MaxLastN : get_context_messages(n)
    \/ reset

SpecSession == InitSession /\ [][NextSession]_vars

(***************************************************************************)
(* SpecRetrieve: schema_retriever.py, retrieve_relevant_schema as a        *)
(* function of the catalog and of its argument top_k.                      *)
(***************************************************************************)
\* the most base tables schema public holds beside vector_embeddings
MaxCatalogTables == 6

\* the default of top_k, which handle_query passes as well
DEFAULT_TOP_K == 5

\* the tables are named by their rank in ORDER BY table_name; the table
\* vector_embeddings is the last of them
VectorEmbeddings == MaxCatalogTables + 1
CatalogTables == 1..VectorEmbeddings

\* what the operations on the catalog leave alone
outsideRetrieve == <<validatorVars, pipelineVars, sessionVars, ingestVars,
                    profileVars>>

\* a set of ranks as the sequence ORDER BY makes of it
RECURSIVE OrderBy(_)
OrderBy(S) ==
    IF S = {} THEN <<>>
    ELSE LET least == CHOOSE x \in S : \A y \in S : x <= y
         IN  <<least>> \o OrderBy(S \ {least})

\* the rows of the first SELECT of lines 62-69
TableNames == OrderBy({t \in catalog : t # VectorEmbeddings})

\* the dict appended for a table (lines 108-115); the columns are left out
Snippet(table_name) ==
    [table |-> table_name, relationships |-> <<>>, similarity |-> 1]

\* the call returned the list
RetrieveReturned(list) == [ended |-> "returned", list |-> list]

InitRetrieve ==
    /\ sql = <<>>
    /\ verdict = NoVerdict
    /\ PipelineIdle
    /\ SessionIdle
    /\ IngestIdle
    /\ ProfileIdle
    /\ catalog \in SUBSET CatalogTables
    /\ top_k = 0
    /\ snippets = NotRetrieved

\* retrieve_relevant_schema(query, top_k = k) returns
retrieve_relevant_schema(k) ==
    /\ top_k' = k
    /\ snippets' = RetrieveReturned(
                       [i \in 1..Len(TableNames) |-> Snippet(TableNames[i])])
    /\ UNCHANGED catalog
    /\ UNCHANGED outsideRetrieve

\* retrieve_relevant_schema(query, top_k = k) raises what the engine raised
\* (lines 122-124)
RetrieveFailed == [ended |-> "raised", list |-> <<>>]

retrieve_relevant_schema_Raises(k) ==
    /\ top_k' = k
    /\ snippets' = RetrieveFailed
    /\ UNCHANGED catalog
    /\ UNCHANGED outsideRetrieve

NextRetrieve ==
    \/ \E k \in 1..DEFAULT_TOP_K : retrieve_relevant_schema(k)
    \/ \E k \in 1..DEFAULT_TOP_K : retrieve_relevant_schema_Raises(k)

SpecRetrieve == InitRetrieve /\ [][NextRetrieve]_vars

(***************************************************************************)
(* SpecIngest: schema_ingest.py, runs of ingest_schema one after another   *)
(* on the vector store of vector_store.py; a run stops part-way when       *)
(* generate_embedding or store.upsert raises.                              *)
(***************************************************************************)
\* the most runs of ingest_schema started
MaxRuns == 4

\* what the runs of ingest_schema leave alone
outsideIngest == <<validatorVars, pipelineVars, sessionVars, retrieveVars,
                  profileVars>>

InitIngest ==
    /\ sql = <<>>
    /\ verdict = NoVerdict
    /\ PipelineIdle
    /\ SessionIdle
    /\ RetrieveIdle
    /\ IngestIdle
    /\ ProfileIdle

\* store.exists(collection="schema", meta_filter={"table": table_name})
exists(table) == store[table] > 0

\* the loop is at a table it does not skip (lines 317-326)
Embeds == ingest.force \/ ~exists(ingest.table)

\* the loop is at a table of SCHEMA_DEFINITIONS
InLoop == ingest.state = "running" /\ ingest.table \in SchemaTables

\* ingest_schema(force) is called and reaches its loop (lines 308-314)
StartIngest(force) ==
    /\ ingest.state # "running"
    /\ ingest.number < MaxRuns
    /\ ingest' = [state |-> "running", force |-> force, table |-> 1,
                  processed |-> 0, skipped |-> 0,
                  number |-> ingest.number + 1,
                  follows_completed |-> ingested]
    /\ UNCHANGED <<store, ingested>>
    /\ UNCHANGED outsideIngest

\* one turn of the loop that skips the table (lines 318-326)
SkipTable ==
    /\ InLoop
    /\ ~Embeds
    /\ ingest' = [ingest EXCEPT !.skipped = @ + 1, !.table = @ + 1]
    /\ UNCHANGED <<store, ingested>>
    /\ UNCHANGED outsideIngest

\* one turn of the loop that embeds the table and stores the vector: upsert
\* is called without doc_id, so it inserts a row with a new uuid
\* (lines 329-348; vector_store.py:126)
UpsertTable ==
    /\ InLoop
    /\ Embeds
    /\ store' = [store EXCEPT ![ingest.table] = @ + 1]
    /\ ingest' = [ingest EXCEPT !.processed = @ + 1, !.table = @ + 1]
    /\ UNCHANGED ingested
    /\ UNCHANGED outsideIngest

\* generate_embedding or store.upsert raises: the run stops at this table
\* and the transaction of upsert leaves no row
IngestRaises ==
    /\ InLoop
    /\ Embeds
    /\ ingest' = [ingest EXCEPT !.state = "stopped"]
    /\ UNCHANGED <<store, ingested>>
    /\ UNCHANGED outsideIngest

\* the loop is over: the summary is returned (lines 351-353)
IngestReturns ==
    /\ ingest.state = "running"
    /\ ingest.table = MaxSchemaTables + 1
    /\ ingest' = [ingest EXCEPT !.state = "completed"]
    /\ ingested' = TRUE
    /\ UNCHANGED store
    /\ UNCHANGED outsideIngest

NextIngest ==
    \/ \E force \in BOOLEAN : StartIngest(force)
    \/ SkipTable
    \/ UpsertTable
    \/ IngestRaises
    \/ IngestReturns

SpecIngest == InitIngest /\ [][NextIngest]_vars

(***************************************************************************)
(* SpecProfile: user_profile.py and memory_updater.py, calls of            *)
(* get_user_profile and update_memory_after_query running as tasks of one  *)
(* event loop; a task gives way to the others at its awaits only.          *)
(***************************************************************************)
\* what the calls on the profiles leave alone
outsideProfile == <<validatorVars, pipelineVars, sessionVars, retrieveVars,
                   ingestVars>>

\* the calls made: get_user_profile(user_id); update_memory_after_query for
\* a query on employees that succeeded, _extract_filters finding a filter on
\* status; update_memory_after_query for a query on sales that failed with
\* a message
CallsMade ==
    {[kind |-> "get", domains |-> <<>>, success |-> FALSE,
      new_filters |-> {}, error_message |-> ""],
     [kind |-> "update", domains |-> <<"HR">>, success |-> TRUE,
      new_filters |-> {<<"status", "Active">>}, error_message |-> ""],
     [kind |-> "update", domains |-> <<"Sales">>, success |-> FALSE,
      new_filters |-> {}, error_message |-> "timeout"]}

InitProfile ==
    /\ sql = <<>>
    /\ verdict = NoVerdict
    /\ PipelineIdle
    /\ SessionIdle
    /\ RetrieveIdle
    /\ IngestIdle
    /\ ProfileIdle

\* json.loads(json.dumps(profile)): the value, sharing nothing with profile
Stored(profile) ==
    [stored |-> TRUE,
     frequent_filters |-> profile.frequent_filters,
     error_patterns |-> profile.error_patterns,
     domain_focus |-> profile.domain_focus,
     total_queries |-> profile.total_queries]

\* the dict a task holds, as it reads now: the values of the keys of
\* task.aliased are the objects of DEFAULT_PROFILE (dict.copy is shallow)
Seen(task) ==
    [f \in DOMAIN task.profile |->
        IF f \in task.aliased THEN DEFAULT_PROFILE[f] ELSE task.profile[f]]

\* {**DEFAULT_PROFILE, **stored}: every key of stored wins, and a stored
\* profile has every key
Merged(stored) ==
    [frequent_filters |-> stored.frequent_filters,
     error_patterns |-> stored.error_patterns,
     domain_focus |-> stored.domain_focus,
     total_queries |-> stored.total_queries]

\* existing.update(new_filters)
DictUpdate(existing, new) ==
    {kv \in existing : \A nkv \in new : nkv[1] # kv[1]} \cup new

\* for d in domains: domain_focus[d] = domain_focus.get(d, 0) + 1
RECURSIVE CountDomains(_, _)
CountDomains(domain_focus, domains) ==
    IF domains = <<>> THEN domain_focus
    ELSE CountDomains([domain_focus EXCEPT ![Head(domains)] = @ + 1],
                      Tail(domains))

\* the call is made and its SELECT returns the row of the user
\* (user_profile.py:90-93); tasks and users are numbered in the order of
\* their first call
SelectProfile(i, user, call) ==
    /\ tasks[i].pc = "idle"
    /\ \A j \in Tasks : j < i => tasks[j].pc # "idle"
    /\ \A u \in Users : u < user => \E j \in Tasks : tasks[j].user = u
    /\ tasks' = [tasks EXCEPT ![i] =
                    [NoTask EXCEPT !.pc = "selected", !.user = user,
                                   !.call = call, !.row = profiles[user]]]
    /\ UNCHANGED <<DEFAULT_PROFILE, profiles>>
    /\ UNCHANGED outsideProfile

\* no row: save_user_profile(user_id, DEFAULT_PROFILE) writes what
\* DEFAULT_PROFILE holds now (lines 95-97, 106-113)
CreateProfile(i) ==
    /\ tasks[i].pc = "selected"
    /\ tasks[i].row = NoProfile
    /\ profiles' = [profiles EXCEPT ![tasks[i].user] = Stored(DEFAULT_PROFILE)]
    /\ tasks' = [tasks EXCEPT ![i].pc = "created",
                              ![i].created = Stored(DEFAULT_PROFILE)]
    /\ UNCHANGED DEFAULT_PROFILE
    /\ UNCHANGED outsideProfile

\* what get_user_profile returns to the task: DEFAULT_PROFILE.copy() after
\* the row was created (line 98): total_queries is the task's own, the other
\* values are the objects of DEFAULT_PROFILE; or the merged row (lines 100-103)
Returned(task) ==
    IF task.row = NoProfile
    THEN [profile |-> DEFAULT_PROFILE,
          aliased |-> {"frequent_filters", "error_patterns", "domain_focus"}]
    ELSE [profile |-> Merged(task.row), aliased |-> {}]

GetReturns(i) ==
    /\ tasks[i].call.kind = "get"
    /\ \/ tasks[i].pc = "created"
       \/ tasks[i].pc = "selected" /\ tasks[i].row # NoProfile
    /\ tasks' = [tasks EXCEPT ![i].pc = "done",
                              ![i].profile = Returned(tasks[i]).profile,
                              ![i].aliased = Returned(tasks[i]).aliased]
    /\ UNCHANGED <<DEFAULT_PROFILE, profiles>>
    /\ UNCHANGED outsideProfile

\* the dict of the task and DEFAULT_PROFILE after lines 123-143 have run on
\* the dict get_user_profile returned
Updated(task) ==
    LET got == Returned(task)
        call == task.call
        shared == got.aliased # {}
        domain_focus == CountDomains(got.profile.domain_focus, call.domains)
        existing == IF call.success
                    THEN DictUpdate(got.profile.frequent_filters,
                                    call.new_filters)
                    ELSE got.profile.frequent_filters
        records == ~call.success /\ call.error_message # ""
        errors == IF records
                  THEN Append(got.profile.error_patterns, call.error_message)
                  ELSE got.profile.error_patterns
    IN  [profile |->
            [frequent_filters |-> existing,
             error_patterns |-> PySliceFrom(errors, -10),
             domain_focus |-> domain_focus,
             total_queries |-> got.profile.total_queries + 1],
         \* errors[-10:] is a new list, the other two are the objects got
         aliased |-> IF records THEN got.aliased \ {"error_patterns"}
                     ELSE got.aliased,
         default |->
            IF shared
            THEN [DEFAULT_PROFILE EXCEPT !.frequent_filters = existing,
                                         !.error_patterns = errors,
                                         !.domain_focus = domain_focus]
            ELSE DEFAULT_PROFILE]

\* get_user_profile returns and lines 123-151 run, up to the await of
\* save_user_profile
UpdateProfile(i) ==
    /\ tasks[i].call.kind = "update"
    /\ \/ tasks[i].pc = "created"
       \/ tasks[i].pc = "selected" /\ tasks[i].row # NoProfile
    /\ tasks' = [tasks EXCEPT ![i].pc = "saving",
                              ![i].profile = Updated(tasks[i]).profile,
                              ![i].aliased = Updated(tasks[i]).aliased]
    /\ DEFAULT_PROFILE' = Updated(tasks[i]).default
    /\ UNCHANGED profiles
    /\ UNCHANGED outsideProfile

\* save_user_profile(user_id, profile) writes the dict as it reads when
\* json.dumps runs (lines 153, 106-113)
SaveProfile(i) ==
    /\ tasks[i].pc = "saving"
    /\ profiles' = [profiles EXCEPT ![tasks[i].user] = Stored(Seen(tasks[i]))]
    /\ tasks' = [tasks EXCEPT ![i].pc = "done"]
    /\ UNCHANGED DEFAULT_PROFILE
    /\ UNCHANGED outsideProfile

\* the statement awaited raises: update_memory_after_query logs it and goes
\* on without saving (line 156); get_user_profile raises
ProfileRaises(i) ==
    /\ tasks[i].pc \in {"selected", "saving"}
    /\ tasks' = [tasks EXCEPT ![i].pc = "failed"]
    /\ UNCHANGED <<DEFAULT_PROFILE, profiles>>
    /\ UNCHANGED outsideProfile

NextProfile ==
    \/ \E i \in Tasks, user \in Users, call \in CallsMade :
           SelectProfile(i, user, call)
    \/ \E i \in Tasks : CreateProfile(i)
    \/ \E i \in Tasks : GetReturns(i)
    \/ \E i \in Tasks : UpdateProfile(i)
    \/ \E i \in Tasks : SaveProfile(i)
    \/ \E i \in Tasks : ProfileRaises(i)

SpecProfile == InitProfile /\ [][NextProfile]_vars

(***************************************************************************)
(* The vocabulary of the claims about validate_sql: the failure kinds of   *)
(* the specification, and its conditions on a text, stated on the          *)
(* characters without the operators of the validator.                      *)
(***************************************************************************)
\* the failure kind of a message of validate_sql ("" is an acceptance)
FailureKind(message) ==
    IF message = "" THEN "Accepted"
    ELSE IF message = "Empty SQL statement." THEN "EmptyStatement"
    ELSE IF message = "Only SELECT queries are allowed. Your query must start with SELECT or WITH."
    THEN "WrongLeadingKeyword"
    ELSE IF message \in {"SQL comments (--) are not allowed",
                         "Block comments (/*) are not allowed"}
    THEN "CommentInjection"
    ELSE IF message \in {"Access to pg_ system catalogs is not allowed",
                         "Access to information_schema is not allowed"}
    THEN "CatalogProbe"
    ELSE IF message = "Unbalanced parentheses in SQL." THEN "UnbalancedParentheses"
    ELSE IF message = "Multiple SQL statements are not allowed. Only single queries are permitted."
    THEN "MultipleStatements"
    ELSE "BlockedKeyword"

\* the denylisted verbs, in lower case
DeniedVerbs == {
    <<"d","r","o","p">>, <<"a","l","t","e","r">>,
    <<"t","r","u","n","c","a","t","e">>, <<"d","e","l","e","t","e">>,
    <<"i","n","s","e","r","t">>, <<"u","p","d","a","t","e">>,
    <<"c","r","e","a","t","e">>, <<"g","r","a","n","t">>,
    <<"r","e","v","o","k","e">>, <<"e","x","e","c","u","t","e">>,
    <<"c","a","l","l">>
}

\* s holds w (lower case) at i, whatever the case of the letters of s
HoldsAt(s, i, w) ==
    /\ i + Len(w) - 1 <= Len(s)
    /\ \A k \in 1..Len(w) : s[i + k - 1] = w[k] \/ ToLower(s[i + k - 1]) = w[k]

\* no letter, digit or underscore at position i of s (nor outside s)
NoWordCharAt(s, i) == i < 1 \/ i > Len(s) \/ ~IsWordChar(s[i])

\* s holds w as a whole word
HasWord(s, w) ==
    \E i \in 1..Len(s) :
        HoldsAt(s, i, w) /\ NoWordCharAt(s, i - 1) /\ NoWordCharAt(s, i + Len(w))

\* s begins with the whole word SELECT or WITH
BeginsWithKeyword(s) ==
    \E w \in {<<"s","e","l","e","c","t">>, <<"w","i","t","h">>} :
        HoldsAt(s, 1, w) /\ NoWordCharAt(s, 1 + Len(w))

HasDeniedVerb(s) == \E w \in DeniedVerbs : HasWord(s, w)

\* s holds a word that starts with pg_, or the word information_schema
HasCatalogToken(s) ==
    \/ \E i \in 1..Len(s) : HoldsAt(s, i, <<"p","g","_">>) /\ NoWordCharAt(s, i - 1)
    \/ HasWord(s, <<"i","n","f","o","r","m","a","t","i","o","n","_",
                    "s","c","h","e","m","a">>)

\* s holds -- or /*
HasComment(s) ==
    \E i \in 1..(Len(s) - 1) :
        \/ s[i] = "-" /\ s[i + 1] = "-"
        \/ s[i] = "/" /\ s[i + 1] = "*"

\* the number of c among the first n characters of s
CountUpTo(s, c, n) == Cardinality({i \in 1..n : s[i] = c})

\* the parentheses of s are balanced and no ")" comes before its "("
Balanced(s) ==
    /\ \A n \in 1..Len(s) : CountUpTo(s, ")", n) <= CountUpTo(s, "(", n)
    /\ CountUpTo(s, "(", Len(s)) = CountUpTo(s, ")", Len(s))

\* every ";" of s is a trailing one: only ";" follow it
OnlyTrailingSemicolons(s) ==
    \A i \in 1..Len(s) : s[i] = ";" => \A j \in (i + 1)..Len(s) : s[j] = ";"

\* validate_sql was called on sql
Validated == verdict # NoVerdict

\* the kind of the verdict on sql, and the trimmed text of sql
Kind == FailureKind(verdict.message)
Trimmed == Strip(sql)

\* sql passes the checks before the parentheses check (1 to 4)
PassesLexicalChecks ==
    /\ Trimmed # <<>>
    /\ BeginsWithKeyword(Trimmed)
    /\ ~HasDeniedVerb(Trimmed)
    /\ ~HasCatalogToken(Trimmed)
    /\ ~HasComment(Trimmed)

\* the first failing check in the order the specification lists them: the
\* verbs and the catalog tokens share check 3, so either kind may be reported
\* by a text that holds both
ListedOrderKinds(s) ==
    IF s = <<>> THEN {"EmptyStatement"}
    ELSE IF ~BeginsWithKeyword(s) THEN {"WrongLeadingKeyword"}
    ELSE IF HasDeniedVerb(s) \/ HasCatalogToken(s)
    THEN {k \in {"BlockedKeyword"} : HasDeniedVerb(s)}
         \cup {k \in {"CatalogProbe"} : HasCatalogToken(s)}
    ELSE IF HasComment(s) THEN {"CommentInjection"}
    ELSE IF ~Balanced(s) THEN {"UnbalancedParentheses"}
    ELSE IF ~OnlyTrailingSemicolons(s) THEN {"MultipleStatements"}
    ELSE {"Accepted"}

\* the first failing check in the order empty, leading keyword, verbs,
\* comments, catalog tokens, parentheses, statements
ScanOrderKind(s) ==
    IF s = <<>> THEN "EmptyStatement"
    ELSE IF ~BeginsWithKeyword(s) THEN "WrongLeadingKeyword"
    ELSE IF HasDeniedVerb(s) THEN "BlockedKeyword"
    ELSE IF HasComment(s) THEN "CommentInjection"
    ELSE IF HasCatalogToken(s) THEN "CatalogProbe"
    ELSE IF ~Balanced(s) THEN "UnbalancedParentheses"
    ELSE IF ~OnlyTrailingSemicolons(s) THEN "MultipleStatements"
    ELSE "Accepted"

(***************************************************************************)
(* Claims about validate_sql, checked under SpecValidator.                 *)
(***************************************************************************)
\* C3 as stated: the verdict reports the first failing check in the order
\* empty, leading keyword, verbs / catalog tokens, comments, parentheses,
\* statements; so a text with a catalog token and a comment is a CatalogProbe.
C3_ListedOrder == Validated => Kind \in ListedOrderKinds(Trimmed)

\* C3, amended: the verdict reports the first failing check in the order
\* empty, leading keyword, verbs, comments, catalog tokens, parentheses,
\* statements; a text with a valid leading keyword, no verb, a catalog token
\* and a comment is reported as a CommentInjection.
C3_ScanOrder == Validated => Kind = ScanOrderKind(Trimmed)

C3_Witness ==
    /\ Validated
    /\ BeginsWithKeyword(Trimmed)
    /\ HasCatalogToken(Trimmed)
    /\ HasComment(Trimmed)
    /\ Kind = "CommentInjection"

\* C4: validate_sql accepts a candidate exactly when its trimmed text is not
\* empty, begins with the whole word SELECT or WITH, holds no denylisted verb
\* as a whole word, no word starting with pg_ and no word information_schema,
\* no -- and no /*, has balanced parentheses and no ";" but trailing ones.
C4_AcceptsIff ==
    Validated =>
        (~verdict.raised <=>
            /\ PassesLexicalChecks
            /\ Balanced(Trimmed)
            /\ OnlyTrailingSemicolons(Trimmed))

C4_Witness ==
    /\ Validated
    /\ ~verdict.raised
    /\ verdict.sql = sql
    /\ Contains(sql, "(")
    /\ Contains(sql, ";")

\* C6 as stated: every text that does not begin with SELECT or WITH is
\* rejected with WrongLeadingKeyword.
C6_AnyText ==
    Validated /\ ~BeginsWithKeyword(Trimmed) => Kind = "WrongLeadingKeyword"

\* C6, amended: every text that is not empty once trimmed and does not begin
\* with the whole word SELECT or WITH is rejected with WrongLeadingKeyword
\* (an empty or blank text is rejected with EmptyStatement).
C6_NonBlankText ==
    /\ Validated /\ Trimmed # <<>> /\ ~BeginsWithKeyword(Trimmed)
           => Kind = "WrongLeadingKeyword"
    /\ Validated /\ Trimmed = <<>> => Kind = "EmptyStatement"

\* a text that opens with the letters of SELECT inside a longer word
C6_Witness ==
    /\ Validated
    /\ HoldsAt(Trimmed, 1, <<"s","e","l","e","c","t">>)
    /\ ~BeginsWithKeyword(Trimmed)
    /\ Kind = "WrongLeadingKeyword"

\* C7: every text that begins with the whole word SELECT or WITH and holds a
\* denylisted verb as a whole word is rejected with BlockedKeyword, whatever
\* else it holds.
C7_VerbBlocked ==
    Validated /\ BeginsWithKeyword(Trimmed) /\ HasDeniedVerb(Trimmed)
        => Kind = "BlockedKeyword"

\* the verb alone inside balanced parentheses
C7_Witness ==
    /\ Validated
    /\ sql = <<"S","E","L","E","C","T","(","D","R","O","P",")">>
    /\ Kind = "BlockedKeyword"

\* C8 as stated: every text with unbalanced parentheses is rejected with
\* UnbalancedParentheses.
C8_AnyText == Validated /\ ~Balanced(Trimmed) => Kind = "UnbalancedParentheses"

\* C8, amended: every text that passes the checks before the parentheses
\* check (not empty, leading SELECT or WITH, no denylisted verb, no comment
\* sequence, no catalog token) and has unbalanced parentheses is rejected with
\* UnbalancedParentheses, also when it holds several statements.
C8_AfterLexicalChecks ==
    Validated /\ PassesLexicalChecks /\ ~Balanced(Trimmed)
        => Kind = "UnbalancedParentheses"

\* equal counts, but a ")" before its "("
C8_Witness ==
    /\ Validated
    /\ PassesLexicalChecks
    /\ CountUpTo(Trimmed, "(", Len(Trimmed)) = CountUpTo(Trimmed, ")", Len(Trimmed))
    /\ ~Balanced(Trimmed)
    /\ Kind = "UnbalancedParentheses"

\* the text without one trailing ";" (if it has one)
StripOneTerminator(s) ==
    IF Len(s) >= 1 /\ s[Len(s)] = ";" THEN SubSeq(s, 1, Len(s) - 1) ELSE s

\* sql passes checks 1 to 5
PassesChecksBeforeStatements == PassesLexicalChecks /\ Balanced(Trimmed)

\* C9 as stated: for a text that passes checks 1 to 5, one trailing ";" is
\* stripped and the text is rejected with MultipleStatements exactly when a
\* ";" remains; so a text ending in two ";" is rejected.
C9_OneTerminator ==
    Validated /\ PassesChecksBeforeStatements =>
        (Kind = "MultipleStatements" <=> Contains(StripOneTerminator(Trimmed), ";"))

\* C9, amended: for a text that passes checks 1 to 5, every trailing ";" is
\* stripped and the text is rejected with MultipleStatements exactly when a
\* ";" remains, and accepted otherwise; so a text ending in two or more ";"
\* and holding no other ";" is accepted.
C9_AllTerminators ==
    Validated /\ PassesChecksBeforeStatements =>
        /\ Kind = "MultipleStatements" <=> ~OnlyTrailingSemicolons(Trimmed)
        /\ Kind \in {"MultipleStatements", "Accepted"}

\* a text ending in two ";" is accepted
C9_Witness ==
    /\ Validated
    /\ PassesChecksBeforeStatements
    /\ Len(Trimmed) >= 2
    /\ Trimmed[Len(Trimmed)] = ";"
    /\ Trimmed[Len(Trimmed) - 1] = ";"
    /\ Kind = "Accepted"

\* C10: every text that begins with the whole word SELECT or WITH, holds no
\* denylisted verb and no catalog token, and holds -- or /* is rejected with
\* CommentInjection.
C10_CommentRejected ==
    Validated /\ BeginsWithKeyword(Trimmed) /\ ~HasDeniedVerb(Trimmed)
              /\ ~HasCatalogToken(Trimmed) /\ HasComment(Trimmed)
        => Kind = "CommentInjection"

\* a comment in a text that also fails the later checks
C10_Witness ==
    /\ Validated
    /\ HasComment(Trimmed)
    /\ ~Balanced(Trimmed)
    /\ ~OnlyTrailingSemicolons(Trimmed)
    /\ Kind = "CommentInjection"

(***************************************************************************)
(* Claims about handle_query, checked under Spec.                          *)
(***************************************************************************)
\* the positions of the calls of fn in this request
CallsOf(fn) == {i \in DOMAIN calls : calls[i].fn = fn}

\* C1: in every request the executor is called only after validate_sql has
\* accepted the same statement in that request, and validate_sql is called
\* only after check_intent has accepted the question in that request; the
\* handler awaits the executor in no other way.
C1_ExecutorOnlyAfterGates ==
    /\ \A i \in CallsOf("execute_readonly_query") :
           /\ \E j \in CallsOf("validate_sql") : j < i /\ calls[j].arg = calls[i].arg
           /\ validated # NoVerdict
           /\ ~validated.raised
           /\ validated.sql = calls[i].arg
    /\ \A j \in CallsOf("validate_sql") :
           /\ \E k \in CallsOf("check_intent") : k < j
           /\ intent.is_in_domain
    /\ pc = "execute" => CallsOf("execute_readonly_query") # {}
    /\ response.status = "success" => CallsOf("execute_readonly_query") # {}

\* the executor is awaited for a question the classifier let in
C1_Witness ==
    /\ pc = "execute"
    /\ CallsOf("_llm_classify") # {}
    /\ calls[Len(calls)].fn = "execute_readonly_query"
    /\ calls[Len(calls)].arg = generated_sql

\* C2: no exception leaves handle_query: whatever a collaborator raises, the
\* request ends with an error outcome.
C2_NoExceptionLeaves ==
    /\ raised = "None"
    /\ pc # "raised"

\* a ";" of s is followed by a statement that opens with a denylisted verb
SecondStatementMutates(s) ==
    \E i \in 1..Len(s) :
        /\ s[i] = ";"
        /\ \E w \in DeniedVerbs :
               LET rest == Strip(SubSeq(s, i + 1, Len(s)))
               IN  HoldsAt(rest, 1, w) /\ NoWordCharAt(rest, 1 + Len(w))

\* the generator returned a valid SELECT, a ";" and a mutating statement, and
\* the handler has validated what _clean_sql made of it
ScenarioC ==
    /\ validated # NoVerdict
    /\ BeginsWithKeyword(generated_sql)
    /\ SecondStatementMutates(generated_sql)

\* C5 as stated: in that case the verdict is MultipleStatements and the
\* statement does not reach the executor.
C5_MultipleStatements ==
    ScenarioC =>
        /\ FailureKind(validated.message) = "MultipleStatements"
        /\ CallsOf("execute_readonly_query") = {}

\* C5, amended: in that case the verdict is BlockedKeyword (the verb of the
\* second statement is found before the statements are counted), the request
\* ends with an error outcome and the statement does not reach the executor.
C5_BlockedKeyword ==
    ScenarioC =>
        /\ FailureKind(validated.message) = "BlockedKeyword"
        /\ CallsOf("execute_readonly_query") = {}
        /\ pc = "done"
        /\ response.status = "error"
        /\ response.sql = generated_sql

\* the reply "SELECT 1;DROP TABLE t;", as _clean_sql leaves it
C5_Witness ==
    /\ ScenarioC
    /\ generated_sql = clean_sql(chat_completion(
           <<"S","E","L","E","C","T"," ","1",";",
             "D","R","O","P"," ","T","A","B","L","E"," ","t",";">>))
    /\ generated_sql[Len(generated_sql)] = "t"
    /\ pc = "done"

(***************************************************************************)
(* Claims about the admission step, checked under SpecIntent.              *)
(***************************************************************************)
\* the ways a keyword may be written: each optional separator is absent or
\* is one character, written "."
RECURSIVE KeywordForms(_)
KeywordForms(kw) ==
    IF kw = <<>> THEN {<<>>}
    ELSE LET rest == KeywordForms(Tail(kw))
         IN  IF Head(kw) = ".?"
             THEN rest \cup {<<".">> \o r : r \in rest}
             ELSE {<<Head(kw)>> \o r : r \in rest}

\* the form f of a keyword stands in q at position i, in either case
FormStandsAt(q, i, f) ==
    /\ i + Len(f) - 1 <= Len(q)
    /\ \A k \in 1..Len(f) :
           IF f[k] = "." THEN q[i + k - 1] # "\n"
           ELSE q[i + k - 1] = f[k] \/ ToLower(q[i + k - 1]) = f[k]

\* the question holds a domain keyword, in either case
MatchesDomainKeyword(q) ==
    \E n \in 1..Len(DOMAIN_KEYWORDS) : \E f \in KeywordForms(DOMAIN_KEYWORDS[n]) :
        \E i \in 1..Len(q) : FormStandsAt(q, i, f)

\* check_intent has been called in this request
IntentCalled == CallsOf("check_intent") # {}

\* check_intent has returned in this request
IntentReturned == pc \notin {"idle", "classify"}

\* C12: for every question that holds a domain keyword (in either case),
\* check_intent returns accepted, and _llm_classify is not called for that
\* question.
C12_KeywordShortCircuits ==
    (IntentCalled /\ MatchesDomainKeyword(query)) =>
        /\ IntentReturned
        /\ intent = IntentResult(TRUE, "None")
        /\ CallsOf("_llm_classify") = {}
        /\ escalation = NoEscalation

\* the keyword "top" in upper case, across two words of the question
C12_Witness ==
    /\ query = <<"w","e","a","t","h","e","r","S","T","O","P">>
    /\ MatchesDomainKeyword(query)
    /\ pc = "retrieve"
    /\ intent.is_in_domain

\* the reply begins with the three characters yes
BeginsWithYes(reply) ==
    Len(reply) >= 3 /\ SubSeq(reply, 1, 3) = <<"y","e","s">>

\* the reply, without the whitespace around it and in lower case, begins
\* with yes
BeginsWithYesInAnyCase(reply) ==
    LET trimmed == Strip(reply)
    IN  /\ Len(trimmed) >= 3
        /\ \A k \in 1..3 : trimmed[k] \in {<<"y","e","s">>[k], <<"Y","E","S">>[k]}

\* check_intent does not raise: no exception has left the handler
IntentDidNotRaise == raised = "None" /\ pc # "raised"

\* C13 as stated: without a keyword, check_intent accepts exactly when the
\* escalation call returned a reply that begins with "yes"; every other
\* reply and every exception is a rejection; check_intent does not raise.
C13_BeginsWithYes ==
    /\ IntentDidNotRaise
    /\ (IntentReturned /\ ~MatchesDomainKeyword(query)) =>
           /\ escalation.ended \in {"returned", "raised"}
           /\ intent.is_in_domain <=>
                  (escalation.ended = "returned" /\ BeginsWithYes(escalation.reply))
           /\ ~intent.is_in_domain => intent = IntentResult(FALSE, REJECTION_MESSAGE)

\* C13, amended: the reply is compared without the whitespace around it and
\* without regard to case.
C13_BeginsWithYesInAnyCase ==
    /\ IntentDidNotRaise
    /\ (IntentReturned /\ ~MatchesDomainKeyword(query)) =>
           /\ escalation.ended \in {"returned", "raised"}
           /\ intent.is_in_domain <=>
                  (escalation.ended = "returned" /\ BeginsWithYesInAnyCase(escalation.reply))
           /\ ~intent.is_in_domain => intent = IntentResult(FALSE, REJECTION_MESSAGE)

\* the escalation call raised for a question without a keyword, and the
\* question was rejected
C13_Witness ==
    /\ ~MatchesDomainKeyword(query)
    /\ escalation.ended = "raised"
    /\ pc = "done"
    /\ ~intent.is_in_domain

\* C14: every rejection of the admission step returned to the caller carries
\* the one fixed message, whether the classifier replied or the escalation
\* call raised, and nothing of the collaborator's error.
C14_FixedRejection ==
    (pc = "done" /\ ~intent.is_in_domain) =>
        response = ErrorResponse(<<>>,
                                 ErrorText(REJECTION_MESSAGE, "", "", <<>>),
                                 "Please rephrase your query to ask about employees, inventory, production, or sales.")

\* a rejection after the escalation call raised with an error text
C14_Witness ==
    /\ pc = "done"
    /\ ~intent.is_in_domain
    /\ escalation.ended = "raised"
    /\ response.error.prefix = REJECTION_MESSAGE

\* C19: the question handed to check_intent has between 1 and 2000
\* characters.
C19_QuestionLength ==
    \A i \in CallsOf("check_intent") :
        /\ Len(calls[i].arg) >= 1
        /\ Len(calls[i].arg) <= 2000

(***************************************************************************)
(* Claims about the stages of handle_query, checked under Spec.            *)
(***************************************************************************)
\* the stage a collaborator belongs to, in the order of the pipeline
StageOf(fn) ==
    IF fn = "check_intent" THEN 1
    ELSE IF fn = "_llm_classify" THEN 1
    ELSE IF fn = "retrieve_relevant_schema" THEN 2
    ELSE IF fn = "generate_sql" THEN 3
    ELSE IF fn = "validate_sql" THEN 4
    ELSE 5

\* no collaborator of a stage after the given one was called in this request
NoCallAfterStage(stage) == \A i \in DOMAIN calls : StageOf(calls[i].fn) <= stage

\* the request is over: an outcome was returned or an exception left
RequestOver == pc \in {"done", "raised"}

\* the stage that failed in this request
AdmissionFailed == IntentReturned /\ ~intent.is_in_domain
GroundingFailed ==
    \/ schema_snippets = 0
    \/ response.error.prefix = "Schema retrieval error: "
GenerationFailed ==
    \/ response.error.prefix = "SQL generation failed. Please rephrase your question."
    \/ raised # "None"
ValidationFailed == validated.raised

\* C15: a failed stage ends the request at once: after a rejection no
\* retrieval, generator or executor call; after a failed grounding no
\* generator or executor call; after a failed generation no validator or
\* executor call; after a failed validation no executor call.
C15_FailedStageTerminates ==
    /\ AdmissionFailed => RequestOver /\ NoCallAfterStage(1)
    /\ GroundingFailed => RequestOver /\ NoCallAfterStage(2)
    /\ GenerationFailed => RequestOver /\ NoCallAfterStage(3)
    /\ ValidationFailed => RequestOver /\ NoCallAfterStage(4)

\* the retrieval returned no snippet and the request ended there
C15_Witness ==
    /\ schema_snippets = 0
    /\ pc = "done"
    /\ response.status = "error"
    /\ calls[Len(calls)].fn = "retrieve_relevant_schema"

\* the names of the collaborators called in this request, in order
Called == [i \in DOMAIN calls |-> calls[i].fn]

\* the calls of a request that runs every stage, with and without the
\* escalation to the classifier
AllStages ==
    <<"check_intent", "retrieve_relevant_schema", "generate_sql",
      "validate_sql", "execute_readonly_query">>
AllStagesEscalated ==
    <<"check_intent", "_llm_classify", "retrieve_relevant_schema", "generate_sql",
      "validate_sql", "execute_readonly_query">>

IsPrefix(s, full) == Len(s) <= Len(full) /\ s = SubSeq(full, 1, Len(s))

\* C16: the stages of a request run in the order admission, grounding,
\* generation, validation, execution, summarization; a success has run them
\* all; no stage is run again: every collaborator is called at most once.
C16_StagesInOrder ==
    /\ IsPrefix(Called, AllStages) \/ IsPrefix(Called, AllStagesEscalated)
    /\ \A i, j \in DOMAIN calls : calls[i].fn = calls[j].fn => i = j
    /\ response.status = "success" =>
           /\ Called \in {AllStages, AllStagesEscalated}
           /\ exec_result # NoExecResult
           /\ response.explanation = Explanation(exec_result.row_count)

\* a success for a question that went through the classifier
C16_Witness ==
    /\ response.status = "success"
    /\ Called = AllStagesEscalated
    /\ pc = "done"

\* the outcome carries no error message (error is None)
NoErrorMessage(error) == error.prefix = "None" /\ error.type = "" /\ error.text = <<>>

\* C18: every outcome has the status success or error; it has an error
\* message exactly when the status is error; an error outcome has no data,
\* no columns and the row count 0; a success has the rows, columns and row
\* count that the executor returned for the validated statement.
C18_OutcomeShape ==
    pc = "done" =>
        /\ response.status \in {"success", "error"}
        /\ response.status = "error" <=> ~NoErrorMessage(response.error)
        /\ response.status = "error" =>
               /\ response.error.prefix \notin {"", "None"}
               /\ response.data = 0
               /\ response.columns = 0
               /\ response.row_count = 0
        /\ response.status = "success" =>
               /\ response.data = exec_result.rows
               /\ response.columns = exec_result.columns
               /\ response.row_count = exec_result.row_count
               /\ response.sql = validated.sql
               /\ ~validated.raised
               /\ calls[Len(calls)] = Call("execute_readonly_query", response.sql)

\* a success with two rows of one column
C18_Witness ==
    /\ pc = "done"
    /\ response.status = "success"
    /\ response.row_count = 2
    /\ response.columns = 1

\* the outcome of a failed retrieval or a failed execution
CollaboratorFailure ==
    /\ pc = "done"
    /\ response.error.prefix \in {"Schema retrieval error: ", "Query execution failed: "}

C21_OneTerminalOutcome ==
    RequestOver =>
        /\ pc = "done"
        /\ response.status \in {"success", "error"}
        /\ raised = "None"

\* the chat completion of generate_sql has returned in this request
GeneratorReturned == raw_output # NoRaw

\* the outcome of a failed generation
GenerationFailure ==
    ErrorResponse(<<>>,
                  ErrorText("SQL generation failed. Please rephrase your question.",
                            "", "", <<>>),
                  "Try to be more specific about what data you want to see.")

\* C22: when the generator's output is empty after _clean_sql, generate_sql
\* raises ValueError and the request ends in a generation failure with an
\* empty sql field; validate_sql and the executor are not called.
C22_EmptyOutputFails ==
    (GeneratorReturned /\ clean_sql(raw_output) = <<>>) =>
        /\ pc = "done"
        /\ response = GenerationFailure
        /\ response.sql = <<>>
        /\ validated = NoVerdict
        /\ CallsOf("validate_sql") = {}
        /\ CallsOf("execute_readonly_query") = {}

\* the generator returned a fence and a semicolon
C22_Witness ==
    /\ raw_output = FENCE \o <<";">>
    /\ clean_sql(raw_output) = <<>>
    /\ pc = "done"
    /\ response = GenerationFailure

\* C24: the result of _clean_sql has no whitespace at either end and does
\* not end with a semicolon.
C24_NoTrailingTerminator ==
    GeneratorReturned =>
        LET cleaned == clean_sql(raw_output)
        IN  cleaned # <<>> =>
                /\ ~IsSpace(cleaned[1])
                /\ ~IsSpace(cleaned[Len(cleaned)])
                /\ cleaned[Len(cleaned)] # ";"

Min(a, b) == IF a < b THEN a ELSE b

\* the last n elements of a sequence, n between 0 and its length
LastOf(s, n) == [i \in 1..n |-> s[Len(s) - n + i]]

\* C25: a session holds at most SESSION_MAX_TURNS turns, and they are the
\* most recent min(n, SESSION_MAX_TURNS) of the n turns added since the last
\* reset, in the order they were added.
C25_MostRecentTurns ==
    /\ Len(turns) <= max_turns
    /\ turns = LastOf(added, Min(Len(added), max_turns))

\* a turn has been evicted: more turns were added than the session keeps
C25_Witness ==
    /\ Len(added) = max_turns + 2
    /\ Len(turns) = max_turns
    /\ turns[1].content = 3

\* C26: get_context_messages(last_n), for every last_n >= 0, returns exactly
\* min(last_n, number of turns) messages, those of the most recent turns in
\* order, and leaves the turns as they were.
C26_ContextIsLastN ==
    [][\A n \in 0..MaxLastN :
          get_context_messages(n) =>
              LET k == Min(n, Len(turns))
              IN  /\ Len(context') = k
                  /\ context' = [i \in 1..k |->
                                    ContextMessage(LastOf(turns, k)[i])]
                  /\ turns' = turns]_vars

\* ---------------------------------------------------------------------
\* the claim about retrieve_relevant_schema
\* ---------------------------------------------------------------------

\* retrieve_relevant_schema has returned a list
Retrieved == snippets.ended = "returned"

\* C23: retrieve_relevant_schema returns at most top_k descriptors, whatever
\* the number of tables in the catalog.
C23_AtMostTopK == Retrieved => Len(snippets.list) <= top_k

\* ---------------------------------------------------------------------
\* the claim about ingest_schema
\* ---------------------------------------------------------------------

\* C27: after any sequence of runs of ingest_schema, with or without force
\* and stopped part-way or not, the store holds at most one schema vector per
\* table, and a run without force that follows a completed run processes no
\* table and skips every table.
C27_IngestIdempotent ==
    /\ \A t \in SchemaTables : store[t] <= 1
    /\ (ingest.state = "completed" /\ ~ingest.force /\ ingest.follows_completed)
           => (ingest.processed = 0 /\ ingest.skipped = MaxSchemaTables)

\* ---------------------------------------------------------------------
\* the claims about the user profiles
\* ---------------------------------------------------------------------

\* the calls of update_memory_after_query for the user that saved the profile
SavedUpdates(user) ==
    {i \in Tasks : /\ tasks[i].user = user
                   /\ tasks[i].call.kind = "update"
                   /\ tasks[i].pc = "done"}

\* no call for the user is between its first and its last await
Quiet(user) ==
    \A i \in Tasks :
        tasks[i].user = user => tasks[i].pc \in {"done", "failed"}

\* every call made for the user is a call of update_memory_after_query
OnlyUpdates(user) ==
    \A i \in Tasks : tasks[i].user = user => tasks[i].call.kind = "update"

\* C29: when the calls of update_memory_after_query for a user have
\* completed, in any interleaving of their awaits, the stored total_queries
\* is its value before the calls (0, no profile being stored) plus the number
\* of the calls that saved the profile.
C29_NoLostUpdate ==
    \A user \in Users :
        (Quiet(user) /\ OnlyUpdates(user) /\ SavedUpdates(user) # {}) =>
            /\ profiles[user] # NoProfile
            /\ profiles[user].total_queries = Cardinality(SavedUpdates(user))

\* C30: DEFAULT_PROFILE is never modified, and a user without a stored
\* profile starts from zero counts in every domain, no frequent filter and
\* no error pattern.
C30_DefaultProfileUnmodified ==
    /\ DEFAULT_PROFILE = DefaultProfileAsLoaded
    /\ \A i \in Tasks :
          tasks[i].created # NoProfile =>
              tasks[i].created = Stored(DefaultProfileAsLoaded)

====
